---- MODULE Spec2Model ----
(***************************************************************************)
(* A model of go-stun: the STUN (RFC 3489) message codec, the              *)
(* retransmission engine Client.fsmSendPackageWaitReply, the four probes   *)
(* doTest1..doTest4, the driver doDetect and the entry point Discovery.    *)
(* Datagrams are byte sequences (bytes are 0..255); 16-bit fields are kept *)
(* modulo 2^16 as the uint16 arithmetic of the code does.                  *)
(***************************************************************************)
EXTENDS Integers, Sequences, FiniteSets, TLC

VARIABLES
    pc,            \* position of the single thread inside Discovery
    serverUDPAddr, \* Discovery's local variable serverUDPAddr
    dialConn,      \* the socket of net.DialUDP: "none", "open", "closed"
    listenConn,    \* the socket of net.ListenUDP: "none", "open", "closed"
    nLocalAddr,    \* Client.nLocalAddr
    nSrvAddr,      \* Client.nSrvAddr
    nChangedAddr,  \* Client.nChangedAddr
    nMappedAddr,   \* Client.nMappedAddr
    test,          \* the probe doDetect is in, 0 before the first
    rqst,          \* the request packet of the running probe
    rqstPkgData,   \* rqstPkgData of the running fsmSendPackageWaitReply
    dst,           \* srvAddr of the running fsmSendPackageWaitReply
    i,             \* loop counter of fsmSendPackageWaitReply
    timeout,       \* its local variable timeout (ms)
    deadline,      \* the read deadline in force (ms after the last send), 0 if none
    reads,         \* datagrams read since the deadline was set
    reply,         \* the packet fsmSendPackageWaitReply returned
    engErr,        \* the error fsmSendPackageWaitReply returned
    nattyp,        \* Discovery's returned NATType
    err,           \* Discovery's returned error
    sent,          \* history: WriteTo calls of the running probe
    dls,           \* history: the deadlines set by the running probe, in order
    hist,          \* history: per probe, "notrun", "running" or what it returned
    lastEvt,       \* history: what the last step did
    accepted,      \* history: the datagram the running probe accepted
    failure,       \* history: the failure that ended the run, "none" if none
    lastSent,      \* history: the bytes the running probe last handed to WriteTo
    usedIDs,       \* history: the transaction ids of the requests built earlier
    codec          \* the message codec exercised on its own (see CodecSpec)

vars == <<pc, serverUDPAddr, dialConn, listenConn, nLocalAddr, nSrvAddr,
          nChangedAddr, nMappedAddr, test, rqst, dst, i, timeout, deadline,
          reads, reply, engErr, nattyp, err, sent, dls, hist, lastEvt, accepted,
          failure, rqstPkgData, lastSent, usedIDs, codec>>

----------------------------------------------------------------------------
(* Bounds of the model *)

\* datagrams that may arrive within one read-deadline window
MaxReads == 2
\* distinct values the 12 random bytes of a transaction id may take
MaxNonce == 2
\* attributes added to a message the codec builds
MaxAttrs == 2
\* pieces a received byte string is put together from
MaxChunks == 2

----------------------------------------------------------------------------
(* Program constants *)

maxRetransmitNum == 9
defRetransmitIntervalMs == 100
maxTimeoutMs == 1600
maxPacketSize == 1024

NATTypeUnknown == 0
NATTypeOpenInternet == 1
NATTypeFullCone == 2
NATTypeRestricted == 3
NATTypePortRestricted == 4
NATTypeSymmetricUDPFirewall == 5
NATTypeSymmetric == 6
NATTypeUdpBlocked == 7
NATTypeError == 8

msgTypeBindingRequest == 1
msgTypeBindingResponse == 257

attributeMappedAddress == 1
attributeChangeRequest == 3
attributeSourceAddress == 4
attributeChangedAddress == 5

magicCookie == <<162, 64, 2, 39>>

DefaultServerAddr == "stun.ekiga.net:3478"

----------------------------------------------------------------------------
(* Go values *)

\* a nil error
NoErr == "nil"
\* a nil *packet
NilPkt == [nil |-> TRUE]
\* a nil *net.UDPAddr
NilAddr == [nil |-> TRUE]
\* the outcome of an operation that panics
Panic == [panic |-> TRUE]
\* a panic inside a function whose result carries an error
PanicErr == "panic: slice bounds out of range"

Uint16(n) == n % 65536
Hi(n) == (n \div 256) % 256
Lo(n) == n % 256
\* binary.BigEndian.Uint16 of the two bytes b[at+1], b[at+2] (at is a Go offset)
BigEndianUint16(b, at) == b[at + 1] * 256 + b[at + 2]
\* the Go slice b[lo:hi]
Slice(b, lo, hi) == SubSeq(b, lo + 1, hi)
Zeros(n) == [k \in 1..n |-> 0]

----------------------------------------------------------------------------
(* utils.go is not among the sources; align and padding follow the          *)
(* specification (4.1) and the tests of utils_test.go.                      *)

\* smallest multiple of 4 that is >= n, as a uint16
align(n) == Uint16(((n + 3) \div 4) * 4)

\* value zero-padded to the next multiple of 4
padding(value) == value \o Zeros(align(Len(value)) - Len(value))

----------------------------------------------------------------------------
(* attribute.go *)

newAttribute(types, value) ==
    LET v == padding(value)
    IN  [types |-> types, length |-> Uint16(Len(v)), value |-> v]

newChangeReqAttribute(changeIP, changePort) ==
    LET b3 == (IF changeIP THEN 4 ELSE 0) + (IF changePort THEN 2 ELSE 0)
    IN  newAttribute(attributeChangeRequest, <<0, 0, 0, b3>>)

\* v.value[2:4] is the port, v.value[4:v.length] the address; the second
\* slice expression panics when v.length < 4
commAddr(v) ==
    IF v.length < 4 \/ Len(v.value) < 4
    THEN Panic
    ELSE [Port |-> BigEndianUint16(v.value, 2), IP |-> Slice(v.value, 4, v.length)]

----------------------------------------------------------------------------
(* packet.go *)

\* newPacket with rnd the 12 bytes rand.Read produced
newPacket(rnd) ==
    [types |-> 0, length |-> 0, transID |-> magicCookie \o rnd, attributes |-> <<>>,
     orgHost |-> NilAddr]

addAttribute(v, a) ==
    [v EXCEPT !.attributes = Append(@, a),
              !.length = Uint16(@ + align(a.length) + 4)]

\* the slice expression b[lo:hi] is in range
InRange(b, lo, hi) == lo <= hi /\ hi <= Len(b)

RECURSIVE parseAttributes_NoWrapCheck(_, _, _)
\* the loop without the test end < pos+4
parseAttributes_NoWrapCheck(pkgData, pos, pkt) ==
    IF Uint16(pos + 4) < Uint16(Len(pkgData))
    THEN LET types  == BigEndianUint16(pkgData, pos)
             length == BigEndianUint16(pkgData, pos + 2)
             end    == Uint16(pos + 4 + length)
         IN  IF end > Uint16(Len(pkgData))
             THEN [err |-> "received data format mismatch"]
             ELSE IF ~InRange(pkgData, Uint16(pos + 4), end)
             THEN [err |-> PanicErr]
             ELSE parseAttributes_NoWrapCheck(pkgData,
                                  Uint16(pos + align(length) + 4),
                                  addAttribute(pkt, newAttribute(types, Slice(pkgData, pos + 4, end))))
    ELSE [err |-> NoErr, pkt |-> pkt]

RECURSIVE parseAttributes(_, _, _)
\* the loop of parsePackage over pkgData[20:], from offset pos; a slice
\* expression out of range panics
parseAttributes(pkgData, pos, pkt) ==
    IF Uint16(pos + 4) < Uint16(Len(pkgData))
    THEN IF ~InRange(pkgData, pos, Uint16(pos + 2))
            \/ ~InRange(pkgData, Uint16(pos + 2), Uint16(pos + 4))
         THEN [err |-> PanicErr]
         ELSE
         LET types  == BigEndianUint16(pkgData, pos)
             length == BigEndianUint16(pkgData, pos + 2)
             end    == Uint16(pos + 4 + length)
         IN  IF end < Uint16(pos + 4) \/ end > Uint16(Len(pkgData))
             THEN [err |-> "received data format mismatch"]
             ELSE IF ~InRange(pkgData, Uint16(pos + 4), end)
             THEN [err |-> PanicErr]
             ELSE parseAttributes(pkgData,
                                  Uint16(pos + align(length) + 4),
                                  addAttribute(pkt, newAttribute(types, Slice(pkgData, pos + 4, end))))
    ELSE [err |-> NoErr, pkt |-> pkt]

parsePackage(pkgData) ==
    IF Len(pkgData) < 20
    THEN [err |-> "received data length too short"]
    ELSE IF Len(pkgData) > 65535
    THEN [err |-> "received data length too long"]
    ELSE parseAttributes(Slice(pkgData, 20, Len(pkgData)), 0,
                         [types |-> BigEndianUint16(pkgData, 0),
                          length |-> BigEndianUint16(pkgData, 2),
                          transID |-> Slice(pkgData, 4, 20),
                          attributes |-> <<>>,
                          orgHost |-> NilAddr])

serialize(v) ==
    LET RECURSIVE attrs(_)
        attrs(k) == IF k > Len(v.attributes) THEN <<>>
                    ELSE LET a == v.attributes[k]
                         IN  <<Hi(a.types), Lo(a.types), Hi(a.length), Lo(a.length)>>
                             \o a.value \o attrs(k + 1)
    IN  <<Hi(v.types), Lo(v.types), Hi(v.length), Lo(v.length)>> \o v.transID \o attrs(1)

\* the address of the first attribute of the given type, nil if there is none
findAttrAddr(v, attribute) ==
    LET idx == {k \in 1..Len(v.attributes) : v.attributes[k].types = attribute}
    IN  IF idx = {} THEN NilAddr
        ELSE commAddr(v.attributes[CHOOSE k \in idx : \A j \in idx : k <= j])

getSourceAddr(v) == findAttrAddr(v, attributeSourceAddress)

getMappedAddr(v) == findAttrAddr(v, attributeMappedAddress)

getChangedAddr(v) == findAttrAddr(v, attributeChangedAddress)

----------------------------------------------------------------------------
(* net.UDPAddr.String, as the probes use it to compare addresses: a 4-byte  *)
(* address and its 16-byte IPv4-mapped form print alike, an empty address   *)
(* prints as the port alone, any other length prints as "?" and the bytes.  *)

v4InV6Prefix == Zeros(10) \o <<255, 255>>

IPString(ip) ==
    IF Len(ip) = 0 THEN <<"">>
    ELSE IF Len(ip) = 4 THEN <<"v4", ip>>
    ELSE IF Len(ip) = 16 /\ SubSeq(ip, 1, 12) = v4InV6Prefix THEN <<"v4", SubSeq(ip, 13, 16)>>
    ELSE IF Len(ip) = 16 THEN <<"v6", ip>>
    ELSE <<"?", ip>>

UDPAddrString(a) ==
    IF a = NilAddr THEN <<"<nil>">> ELSE <<IPString(a.IP), a.Port>>

----------------------------------------------------------------------------
(* The environment: the addresses of the hosts and the datagrams the       *)
(* network may deliver to the listen socket.                                *)

AddrL   == [Port |-> 5000, IP |-> <<10, 0, 0, 2>>]
AddrL16 == [Port |-> 5000, IP |-> v4InV6Prefix \o <<10, 0, 0, 2>>]
AddrN   == [Port |-> 6000, IP |-> <<2, 2, 2, 2>>]
AddrN2  == [Port |-> 6001, IP |-> <<2, 2, 2, 2>>]
AddrS   == [Port |-> 3478, IP |-> <<1, 1, 1, 1>>]
AddrS2  == [Port |-> 3479, IP |-> <<1, 1, 1, 1>>]
AddrC   == [Port |-> 3479, IP |-> <<1, 1, 1, 2>>]

\* the address a server name resolves to
ResolveUDPAddr(name) == AddrS

ServerNames == {"", "stun.example.org:3478"}
Peers == {AddrS, AddrS2, AddrC}
MappedChoices == {AddrL, AddrL16, AddrN, AddrN2}

\* what rand.Read may do: fail, or fill in 12 bytes
RandOutcomes ==
    {[ok |-> FALSE]} \cup {[ok |-> TRUE, bytes |-> Zeros(11) \o <<n>>] : n \in 1..MaxNonce}

\* an address attribute on the wire
AddrAttr(types, a) ==
    <<Hi(types), Lo(types), Hi(4 + Len(a.IP)), Lo(4 + Len(a.IP)),
      0, IF Len(a.IP) = 4 THEN 1 ELSE 2, Hi(a.Port), Lo(a.Port)>> \o a.IP

Bodies ==
    {<<>>}
    \cup {AddrAttr(attributeMappedAddress, m) \o AddrAttr(attributeChangedAddress, AddrC) :
            m \in MappedChoices}
    \cup {AddrAttr(attributeMappedAddress, AddrN)}
    \* a MAPPED-ADDRESS of length 0, followed by a CHANGED-ADDRESS
    \cup {<<0, 1, 0, 0>> \o AddrAttr(attributeChangedAddress, AddrC)}
    \* an attribute that runs past the end of the datagram
    \cup {<<0, 1, 0, 8, 0, 1, 0, 0>>}

RawDatagrams ==
    {<<Hi(msgTypeBindingResponse), Lo(msgTypeBindingResponse), Hi(Len(b)), Lo(Len(b))>>
        \o magicCookie \o r.bytes \o b : r \in {x \in RandOutcomes : x.ok}, b \in Bodies}
    \* a datagram shorter than a header
    \cup {<<1, 1, 0, 0>>}

\* no datagram
NoDatagram == [none |-> TRUE]

Datagrams == {[data |-> b, peer |-> p] : b \in RawDatagrams, p \in Peers}

\* parsePackage of every datagram the network may deliver
Parsed == [b \in RawDatagrams |-> parsePackage(b)]

----------------------------------------------------------------------------
(* The inputs of the codec exercised on its own: messages built with        *)
(* newPacket and addAttribute, and byte strings handed to parsePackage.     *)

\* the codec at rest
CodecOff ==
    [phase |-> "off", raws |-> <<>>, msg |-> NilPkt, buf |-> <<>>,
     res |-> [err |-> NoErr, pkt |-> NilPkt], want |-> 0, addr |-> NilAddr]

\* raw attribute values handed to newAttribute
RawValues ==
    {<<>>, <<7>>, <<7, 7, 7>>, <<0, 0, 0, 6>>, <<9, 9, 9, 9, 9>>,
     <<0, 1, 23, 112, 1, 1, 1, 2>>}

AttrTypes == {attributeMappedAddress, attributeSourceAddress, attributeChangedAddress}

MsgTypes == {msgTypeBindingRequest, msgTypeBindingResponse}

\* pieces of a received message body: attributes well formed, with a value of
\* length 0, short, unpadded, overrunning, with lengths near 2^16, and fragments
Chunks ==
    {<<0, 1, 0, 0>>,
     <<0, 4, 0, 4, 1, 2, 3, 4>>,
     <<0, 5, 0, 8, 0, 1, 23, 112, 1, 1, 1, 2>>,
     <<0, 1, 0, 2, 7, 7>>,
     <<0, 1, 0, 5, 9, 9, 9, 9, 9>>,
     <<0, 1, 0, 5, 9, 9, 9, 9, 9, 0, 0, 0>>,
     <<0, 1, 0, 8, 0, 1, 0, 0>>,
     <<0, 1, 255, 251>>,
     <<0, 1, 255, 252>>,
     <<0, 1, 255, 255>>,
     <<0, 1, 0>>,
     <<7>>}

RECURSIVE Joined(_)
\* the concatenations of at most n pieces
Joined(n) ==
    IF n = 0 THEN {<<>>}
    ELSE {<<>>} \cup {c \o b : c \in Chunks, b \in Joined(n - 1)}

\* a 20-byte header of a response that declares the given length
WireHeader(declared) ==
    <<Hi(msgTypeBindingResponse), Lo(msgTypeBindingResponse), Hi(declared), Lo(declared)>>
        \o magicCookie \o Zeros(11) \o <<1>>

\* the longest byte string parsePackage admits: one attribute filling 65535 bytes
MaxInput == WireHeader(65515) \o <<0, 1, Hi(65511), Lo(65511)>> \o Zeros(65511)
\* one byte more: one attribute filling 65536 bytes
LongInput == WireHeader(65516) \o <<0, 1, Hi(65512), Lo(65512)>> \o Zeros(65512)

\* the byte strings handed to parsePackage
WireInputs ==
    {WireHeader(Len(b)) \o b : b \in Joined(MaxChunks)}
    \cup {WireHeader(0) \o b : b \in Joined(MaxChunks)}
    \cup {<<>>, Zeros(19), MaxInput, LongInput}

----------------------------------------------------------------------------
(* client.go: the probes *)

Min(a, b) == IF a < b THEN a ELSE b

\* buildBindingRequest with rnd what rand.Read did inside newPacket
buildBindingRequest(changeIP, changePort, rnd) ==
    IF ~rnd.ok THEN NilPkt
    ELSE LET pkt == [newPacket(rnd.bytes) EXCEPT !.types = msgTypeBindingRequest]
         IN  IF changeIP \/ changePort
             THEN addAttribute(pkt, newChangeReqAttribute(changeIP, changePort))
             ELSE pkt

\* the session fields of the Client
Cli == [nLocalAddr |-> nLocalAddr, nSrvAddr |-> nSrvAddr,
        nChangedAddr |-> nChangedAddr, nMappedAddr |-> nMappedAddr]

\* the requests with the flags of Test2 and Test4 exchanged
ProbeRequest_FlagsExchanged(t, rnd) ==
    CASE t = 1 -> buildBindingRequest(FALSE, FALSE, rnd)
      [] t = 2 -> buildBindingRequest(FALSE, TRUE, rnd)
      [] t = 3 -> buildBindingRequest(FALSE, FALSE, rnd)
      [] t = 4 -> buildBindingRequest(TRUE, TRUE, rnd)

\* the request each probe builds
ProbeRequest(t, rnd) ==
    CASE t = 1 -> buildBindingRequest(FALSE, FALSE, rnd)
      [] t = 2 -> buildBindingRequest(TRUE, TRUE, rnd)
      [] t = 3 -> buildBindingRequest(FALSE, FALSE, rnd)
      [] t = 4 -> buildBindingRequest(FALSE, TRUE, rnd)

\* the destination doDetect hands to each probe
ProbeDst(t, cli) ==
    IF t = 3 THEN cli.nChangedAddr ELSE cli.nSrvAddr

\* whether evaluating the probe's fchk on pkg panics (in commAddr)
fchkPanics(t, pkg) ==
    CASE t = 1 -> getMappedAddr(pkg) = Panic \/ getChangedAddr(pkg) = Panic
      [] t = 3 -> getMappedAddr(pkg) = Panic
      [] OTHER -> FALSE

fchkTest1(cli, pkg, srvAddr) ==
    ~(getMappedAddr(pkg) = NilAddr \/ getChangedAddr(pkg) = NilAddr)

fchkTest2(cli, pkg, srvAddr) ==
    UDPAddrString(cli.nChangedAddr) = UDPAddrString(pkg.orgHost)

fchkTest3(cli, pkg, srvAddr) ==
    ~(getMappedAddr(pkg) = NilAddr)

\* Test4 taking an answer from any port
fchkTest4_AnyPort(cli, pkg, srvAddr) == TRUE

fchkTest4(cli, pkg, srvAddr) ==
    pkg.orgHost.Port # srvAddr.Port

fchk(t, cli, pkg, srvAddr) ==
    CASE t = 1 -> fchkTest1(cli, pkg, srvAddr)
      [] t = 2 -> fchkTest2(cli, pkg, srvAddr)
      [] t = 3 -> fchkTest3(cli, pkg, srvAddr)
      [] t = 4 -> fchkTest4(cli, pkg, srvAddr)

Ret(n, e) == [nat |-> n, err |-> e]

\* doTest1 going on to Test2 when no reply came
doTest1_NoReplyContinues(cli, rep, e) ==
    IF e # NoErr THEN Ret(NATTypeError, e)
    ELSE Ret(NATTypeUnknown, NoErr)

\* doTest1 taking an engine error for "no reply"
doTest1_ErrAsNoReply(cli, rep, e) ==
    IF rep = NilPkt THEN Ret(NATTypeUdpBlocked, NoErr)
    ELSE Ret(NATTypeUnknown, NoErr)

\* what doTest1 returns, given what fsmSendPackageWaitReply returned
doTest1(cli, rep, e) ==
    IF e # NoErr THEN Ret(NATTypeError, e)
    ELSE IF rep = NilPkt THEN Ret(NATTypeUdpBlocked, NoErr)
    ELSE Ret(NATTypeUnknown, NoErr)

\* what doTest1 stores in the Client when a reply was accepted
recordTest1(cli, rep) ==
    [cli EXCEPT !.nMappedAddr = getMappedAddr(rep),
                !.nChangedAddr = getChangedAddr(rep)]

\* the Client with Test3 storing the addresses of its reply as well
recordTest_Test3Stores(t, cli, rep, e) ==
    IF t \in {1, 3} /\ e = NoErr /\ rep # NilPkt THEN recordTest1(cli, rep) ELSE cli

\* the Client after doTestN returned: only doTest1 assigns to it, past its two
\* early returns
recordTest(t, cli, rep, e) ==
    IF t = 1 /\ e = NoErr /\ rep # NilPkt THEN recordTest1(cli, rep) ELSE cli

doTest2(cli, rep, e) ==
    LET hasPublicIP == UDPAddrString(cli.nMappedAddr) = UDPAddrString(cli.nLocalAddr)
    IN  IF e # NoErr THEN Ret(NATTypeError, e)
        ELSE IF rep = NilPkt
        THEN IF hasPublicIP THEN Ret(NATTypeSymmetricUDPFirewall, NoErr)
                            ELSE Ret(NATTypeUnknown, NoErr)
        ELSE IF hasPublicIP THEN Ret(NATTypeOpenInternet, NoErr)
                            ELSE Ret(NATTypeFullCone, NoErr)

\* doTest3 with the comparison of the mapped addresses inverted
doTest3_InvertedCompare(cli, rep, e) ==
    IF e # NoErr THEN Ret(NATTypeError, e)
    ELSE IF rep = NilPkt THEN Ret(NATTypeError, "the CHANGED server had NO answer")
    ELSE IF UDPAddrString(getMappedAddr(rep)) = UDPAddrString(cli.nMappedAddr)
    THEN Ret(NATTypeSymmetric, NoErr)
    ELSE Ret(NATTypeUnknown, NoErr)

doTest3(cli, rep, e) ==
    IF e # NoErr THEN Ret(NATTypeError, e)
    ELSE IF rep = NilPkt THEN Ret(NATTypeError, "the CHANGED server had NO answer")
    ELSE IF UDPAddrString(getMappedAddr(rep)) # UDPAddrString(cli.nMappedAddr)
    THEN Ret(NATTypeSymmetric, NoErr)
    ELSE Ret(NATTypeUnknown, NoErr)

\* doTest4 with its two classifications exchanged
doTest4_Swapped(cli, rep, e) ==
    IF e # NoErr THEN Ret(NATTypeError, e)
    ELSE IF rep = NilPkt THEN Ret(NATTypeRestricted, NoErr)
    ELSE Ret(NATTypePortRestricted, NoErr)

\* doTest4 undecided when no reply came
doTest4_NoReplyUnknown(cli, rep, e) ==
    IF e # NoErr THEN Ret(NATTypeError, e)
    ELSE IF rep = NilPkt THEN Ret(NATTypeUnknown, NoErr)
    ELSE Ret(NATTypeRestricted, NoErr)

doTest4(cli, rep, e) ==
    IF e # NoErr THEN Ret(NATTypeError, e)
    ELSE IF rep = NilPkt THEN Ret(NATTypePortRestricted, NoErr)
    ELSE Ret(NATTypeRestricted, NoErr)

doTest(t, cli, rep, e) ==
    CASE t = 1 -> doTest1(cli, rep, e)
      [] t = 2 -> doTest2(cli, rep, e)
      [] t = 3 -> doTest3(cli, rep, e)
      [] t = 4 -> doTest4(cli, rep, e)

\* doDetect going on after a terminal classification
doDetectReturns_IgnoresTerminal(t, nat, e) ==
    t = 4 \/ e # NoErr

\* doDetect returns after probe t, which returned (nat, e)
doDetectReturns(t, nat, e) ==
    t = 4 \/ e # NoErr \/ nat # NATTypeUnknown

----------------------------------------------------------------------------
(* client.go: fsmSendPackageWaitReply *)

\* the loop condition i < maxRetransmitNum
LoopContinues(k) == k < maxRetransmitNum

\* the timeout of the next attempt
NextTimeout(t) == IF t < maxTimeoutMs THEN t * 2 ELSE t

\* the read loop without the comparison of the transaction ids
OnDatagram_NoTransIDCheck(t, cli, rq, srvAddr, d) ==
    LET r == Parsed[Slice(d.data, 0, Min(Len(d.data), maxPacketSize))]
    IN  IF r.err # NoErr THEN "error"
        ELSE LET p == [r.pkt EXCEPT !.orgHost = d.peer]
             IN  IF fchkPanics(t, p) THEN "panic"
                 ELSE IF ~fchk(t, cli, p, srvAddr) THEN "skip_chk"
                 ELSE "return"

\* the read loop comparing only the first 4 bytes of the transaction ids
OnDatagram_CookieOnly(t, cli, rq, srvAddr, d) ==
    LET r == Parsed[Slice(d.data, 0, Min(Len(d.data), maxPacketSize))]
    IN  IF r.err # NoErr THEN "error"
        ELSE IF SubSeq(rq.transID, 1, 4) # SubSeq(r.pkt.transID, 1, 4) THEN "skip_tid"
        ELSE LET p == [r.pkt EXCEPT !.orgHost = d.peer]
             IN  IF fchkPanics(t, p) THEN "panic"
                 ELSE IF ~fchk(t, cli, p, srvAddr) THEN "skip_chk"
                 ELSE "return"

\* what the read loop does with a datagram d read while probe t waits for the
\* reply to rq: "error" (return nil, err), "skip_tid" and "skip_chk" (continue),
\* "panic", or "return" (return p, nil)
OnDatagram(t, cli, rq, srvAddr, d) ==
    LET r == Parsed[Slice(d.data, 0, Min(Len(d.data), maxPacketSize))]
    IN  IF r.err # NoErr THEN "error"
        ELSE IF rq.transID # r.pkt.transID THEN "skip_tid"
        ELSE LET p == [r.pkt EXCEPT !.orgHost = d.peer]
             IN  IF fchkPanics(t, p) THEN "panic"
                 ELSE IF ~fchk(t, cli, p, srvAddr) THEN "skip_chk"
                 ELSE "return"

----------------------------------------------------------------------------
(* The state machine *)

\* the variables of Discovery before its first statement
Fresh ==
    /\ serverUDPAddr = NilAddr
    /\ dialConn = "none"
    /\ listenConn = "none"
    /\ nLocalAddr = NilAddr
    /\ nSrvAddr = NilAddr
    /\ nChangedAddr = NilAddr
    /\ nMappedAddr = NilAddr
    /\ test = 0
    /\ rqst = NilPkt
    /\ dst = NilAddr
    /\ i = 0
    /\ timeout = 0
    /\ deadline = 0
    /\ reads = 0
    /\ reply = NilPkt
    /\ engErr = NoErr
    /\ nattyp = NATTypeUnknown
    /\ err = NoErr
    /\ sent = 0
    /\ dls = <<>>
    /\ hist = [t \in 1..4 |-> [st |-> "notrun"]]
    /\ lastEvt = "init"
    /\ accepted = NoDatagram
    /\ failure = "none"
    /\ rqstPkgData = <<>>
    /\ lastSent = <<>>
    /\ usedIDs = {}

Init ==
    /\ pc = "resolve"
    /\ Fresh
    /\ codec = CodecOff

session == <<nLocalAddr, nSrvAddr, nChangedAddr, nMappedAddr>>
engine == <<rqst, dst, i, timeout, deadline, reads, reply, engErr, sent, dls, accepted>>

\* Discovery returns (n, e) before the listen socket exists
EarlyReturn(n, e, why) ==
    /\ pc' = "done"
    /\ nattyp' = n
    /\ err' = e
    /\ failure' = why
    /\ UNCHANGED <<serverUDPAddr, listenConn, session, test, engine, hist>>

\* net.ResolveUDPAddr (client.go 315-326); it never returns (nil, nil)
Resolve ==
    /\ pc = "resolve"
    /\ UNCHANGED <<rqstPkgData, lastSent, usedIDs, codec>>
    /\ lastEvt' = "resolve"
    /\ UNCHANGED <<dialConn, listenConn, session, test, engine, hist>>
    /\ \E s \in ServerNames, ok \in BOOLEAN :
         LET name == IF s = "" THEN DefaultServerAddr ELSE s
         IN  IF ok
             THEN /\ serverUDPAddr' = ResolveUDPAddr(name)
                  /\ pc' = "dial"
                  /\ UNCHANGED <<nattyp, err, failure>>
             ELSE /\ pc' = "done"
                  /\ nattyp' = NATTypeError
                  /\ err' = "resolve error"
                  /\ failure' = "resolve"
                  /\ UNCHANGED serverUDPAddr

\* net.DialUDP (client.go 327-330)
Dial ==
    /\ pc = "dial"
    /\ UNCHANGED <<rqstPkgData, lastSent, usedIDs, codec>>
    /\ lastEvt' = "dial"
    /\ \/ /\ dialConn' = "open"
          /\ pc' = "prelim"
          /\ UNCHANGED <<serverUDPAddr, listenConn, session, test, engine, hist,
                         nattyp, err, failure>>
       \/ /\ UNCHANGED dialConn
          /\ EarlyReturn(NATTypeError, "fail to connect to STUN server", "connect")

\* the preliminary request (client.go 331-335); the result of Write is ignored
Prelim ==
    /\ pc = "prelim"
    /\ lastEvt' = "prelim"
    /\ UNCHANGED <<dialConn, rqstPkgData, lastSent, codec>>
    /\ \E rnd \in RandOutcomes :
         IF buildBindingRequest(FALSE, FALSE, rnd) = NilPkt
         THEN /\ EarlyReturn(NATTypeError, "runtime error", "construct")
              /\ UNCHANGED usedIDs
         ELSE /\ pc' = "localaddr"
              /\ usedIDs' = usedIDs \cup {buildBindingRequest(FALSE, FALSE, rnd).transID}
              /\ UNCHANGED <<serverUDPAddr, listenConn, session, test, engine, hist,
                             nattyp, err, failure>>

\* conn.LocalAddr and conn.Close (client.go 336-343)
QueryLocalAddr ==
    /\ pc = "localaddr"
    /\ UNCHANGED <<rqstPkgData, lastSent, usedIDs, codec>>
    /\ lastEvt' = "localaddr"
    /\ \E a \in {NilAddr, AddrL} :
         IF a = NilAddr
         THEN /\ UNCHANGED dialConn
              /\ EarlyReturn(NATTypeError, "runtime error", "localaddr")
         ELSE /\ nLocalAddr' = a
              /\ nSrvAddr' = serverUDPAddr
              /\ dialConn' = "closed"
              /\ pc' = "listen"
              /\ UNCHANGED <<serverUDPAddr, listenConn, nChangedAddr, nMappedAddr, test,
                             engine, hist, nattyp, err, failure>>

\* net.ListenUDP (client.go 346-351), then doDetect enters doTest1
Listen ==
    /\ pc = "listen"
    /\ UNCHANGED <<rqstPkgData, lastSent, usedIDs, codec>>
    /\ lastEvt' = "listen"
    /\ UNCHANGED dialConn
    /\ \/ /\ listenConn' = "open"
          /\ test' = 1
          /\ pc' = "build"
          /\ UNCHANGED <<serverUDPAddr, session, engine, hist, nattyp, err, failure>>
       \/ EarlyReturn(NATTypeError, "listen error", "bind")

\* doTestN builds its request and calls fsmSendPackageWaitReply (client.go 62-66);
\* with a nil request rqst.serialize() dereferences nil, and the deferred Close runs
StartProbe ==
    /\ pc = "build"
    /\ hist' = [hist EXCEPT ![test] = [st |-> "running"]]
    /\ UNCHANGED <<serverUDPAddr, dialConn, session, test, nattyp, err, usedIDs, codec>>
    /\ lastSent' = <<>>
    /\ \E rnd \in RandOutcomes :
         LET rq == ProbeRequest(test, rnd)
         IN  /\ rqst' = rq
             /\ rqstPkgData' = IF rq = NilPkt THEN rqstPkgData ELSE serialize(rq)
             /\ dst' = ProbeDst(test, Cli)
             /\ reply' = NilPkt
             /\ accepted' = NoDatagram
             /\ engErr' = NoErr
             /\ sent' = 0
             /\ dls' = <<>>
             /\ deadline' = 0
             /\ reads' = 0
             /\ IF rq = NilPkt
                THEN /\ pc' = "panic"
                     /\ lastEvt' = "nil_deref"
                     /\ failure' = "construct"
                     /\ listenConn' = "closed"
                     /\ UNCHANGED <<i, timeout>>
                ELSE /\ i' = 0
                     /\ timeout' = defRetransmitIntervalMs
                     /\ pc' = IF LoopContinues(0) THEN "send" ELSE "ret"
                     /\ lastEvt' = "build"
                     /\ UNCHANGED <<failure, listenConn>>

\* fsmSendPackageWaitReply returns (nil, e)
EngineFails(e, evt, why) ==
    /\ pc' = "ret"
    /\ engErr' = e
    /\ reply' = NilPkt
    /\ lastEvt' = evt
    /\ failure' = why

\* conn.WriteTo (client.go 68-74)
Send ==
    /\ pc = "send"
    /\ sent' = sent + 1
    /\ lastSent' = rqstPkgData
    /\ UNCHANGED <<rqstPkgData, usedIDs, codec>>
    /\ UNCHANGED <<serverUDPAddr, dialConn, listenConn, session, test, hist, nattyp, err,
                   rqst, dst, i, timeout, deadline, reads, dls, accepted>>
    /\ \/ /\ pc' = "setdl"
          /\ lastEvt' = "send"
          /\ UNCHANGED <<reply, engErr, failure>>
       \/ EngineFails("write error", "write_error", "transport")
       \/ EngineFails("error in sending rqstPkgData", "short_write", "transport")

\* conn.SetReadDeadline and the doubling of timeout (client.go 75-81)
SetReadDeadline ==
    /\ pc = "setdl"
    /\ UNCHANGED <<rqstPkgData, lastSent, usedIDs, codec>>
    /\ UNCHANGED <<serverUDPAddr, dialConn, listenConn, session, test, hist, nattyp, err,
                   rqst, dst, i, sent, accepted>>
    /\ \/ /\ deadline' = timeout
          /\ dls' = Append(dls, timeout)
          /\ timeout' = NextTimeout(timeout)
          /\ reads' = 0
          /\ pc' = "read"
          /\ lastEvt' = "setdl"
          /\ UNCHANGED <<reply, engErr, failure>>
       \/ /\ EngineFails("deadline error", "deadline_error", "transport")
          /\ UNCHANGED <<deadline, dls, timeout, reads>>

\* conn.ReadFrom times out (client.go 86-88): the next turn of the send loop
ReadTimeout ==
    /\ pc = "read"
    /\ UNCHANGED <<rqstPkgData, lastSent, usedIDs, codec>>
    /\ i' = i + 1
    /\ pc' = IF LoopContinues(i + 1) THEN "send" ELSE "ret"
    /\ lastEvt' = "timeout"
    /\ UNCHANGED <<serverUDPAddr, dialConn, listenConn, session, test, hist, nattyp, err,
                   rqst, dst, timeout, deadline, reads, reply, engErr, sent, dls, failure,
                   accepted>>

\* conn.ReadFrom fails otherwise (client.go 89)
ReadError ==
    /\ pc = "read"
    /\ UNCHANGED <<rqstPkgData, lastSent, usedIDs, codec>>
    /\ EngineFails("read error", "read_error", "transport")
    /\ UNCHANGED <<serverUDPAddr, dialConn, listenConn, session, test, hist, nattyp, err,
                   rqst, dst, i, timeout, deadline, reads, sent, dls, accepted>>

\* conn.ReadFrom delivers a datagram (client.go 91-106)
ReadDatagram ==
    /\ pc = "read"
    /\ UNCHANGED <<rqstPkgData, lastSent, usedIDs, codec>>
    /\ reads < MaxReads
    /\ UNCHANGED <<serverUDPAddr, dialConn, session, test, hist, nattyp, err,
                   rqst, dst, i, timeout, deadline, sent, dls>>
    /\ \E d \in Datagrams :
         LET what == OnDatagram(test, Cli, rqst, dst, d)
             r    == Parsed[Slice(d.data, 0, Min(Len(d.data), maxPacketSize))]
         IN  /\ reads' = reads + 1
             /\ CASE what = "error" ->
                       /\ EngineFails(r.err, "rx_undecodable", "decode")
                       /\ UNCHANGED <<listenConn, accepted>>
                  [] what = "skip_tid" ->
                       /\ lastEvt' = "rx_mismatch"
                       /\ UNCHANGED <<pc, reply, engErr, failure, listenConn, accepted>>
                  [] what = "skip_chk" ->
                       /\ lastEvt' = "rx_rejected"
                       /\ UNCHANGED <<pc, reply, engErr, failure, listenConn, accepted>>
                  [] what = "panic" ->
                       /\ pc' = "panic"
                       /\ lastEvt' = "rx_panic"
                       /\ failure' = "accessor"
                       /\ listenConn' = "closed"
                       /\ UNCHANGED <<reply, engErr, accepted>>
                  [] what = "return" ->
                       /\ pc' = "ret"
                       /\ reply' = [r.pkt EXCEPT !.orgHost = d.peer]
                       /\ accepted' = d
                       /\ lastEvt' = "rx_accepted"
                       /\ UNCHANGED <<engErr, failure, listenConn>>

\* the rest of doTestN after fsmSendPackageWaitReply returned, and doDetect's
\* decision (client.go 175-183, 203-225, 246-258, 280-288, 291-307); when doDetect
\* returns, Discovery returns its result and the deferred Close runs
ProbeReturn ==
    /\ pc = "ret"
    /\ lastEvt' = "return"
    /\ usedIDs' = usedIDs \cup {rqst.transID}
    /\ UNCHANGED <<rqstPkgData, lastSent, codec>>
    /\ LET r == doTest(test, Cli, reply, engErr)
       IN  /\ hist' = [hist EXCEPT ![test] =
                          [st |-> "done", nat |-> r.nat, err |-> r.err,
                           replied |-> reply # NilPkt, engErr |-> engErr]]
           /\ nMappedAddr' = recordTest(test, Cli, reply, engErr).nMappedAddr
           /\ nChangedAddr' = recordTest(test, Cli, reply, engErr).nChangedAddr
           /\ IF doDetectReturns(test, r.nat, r.err)
              THEN /\ pc' = "done"
                   /\ nattyp' = r.nat
                   /\ err' = r.err
                   /\ listenConn' = "closed"
                   /\ failure' = IF failure = "none" /\ r.err # NoErr
                                 THEN "noanswer" ELSE failure
                   /\ UNCHANGED test
              ELSE /\ pc' = "build"
                   /\ test' = test + 1
                   /\ UNCHANGED <<nattyp, err, listenConn, failure>>
    /\ UNCHANGED <<serverUDPAddr, dialConn, nLocalAddr, nSrvAddr, engine>>

Next ==
    \/ Resolve
    \/ Dial
    \/ Prelim
    \/ QueryLocalAddr
    \/ Listen
    \/ StartProbe
    \/ Send
    \/ SetReadDeadline
    \/ ReadTimeout
    \/ ReadError
    \/ ReadDatagram
    \/ ProbeReturn

Spec == Init /\ [][Next]_vars

\* the thread of Discovery keeps running, and a read deadline that has been set
\* expires: ReadFrom returns the timeout however many datagrams arrive before it
LiveSpec == Spec /\ WF_vars(Next) /\ WF_vars(ReadTimeout)

----------------------------------------------------------------------------
(* The codec on its own *)

discovery ==
    <<pc, serverUDPAddr, dialConn, listenConn, session, test, engine, nattyp, err,
      hist, lastEvt, failure, rqstPkgData, lastSent, usedIDs>>

\* a message fresh from newPacket, or a byte string received
CodecInit ==
    /\ pc = "codec"
    /\ Fresh
    /\ \/ \E ty \in MsgTypes, rnd \in {x \in RandOutcomes : x.ok} :
            codec = [CodecOff EXCEPT !.phase = "build",
                                     !.msg = [newPacket(rnd.bytes) EXCEPT !.types = ty]]
       \/ \E b \in WireInputs :
            codec = [CodecOff EXCEPT !.phase = "wire", !.buf = b]

\* pkt.addAttribute(*newAttribute(types, value))
CodecAdd ==
    /\ codec.phase = "build"
    /\ Len(codec.msg.attributes) < MaxAttrs
    /\ \E ty \in AttrTypes, v \in RawValues :
         codec' = [codec EXCEPT !.msg = addAttribute(@, newAttribute(ty, v)),
                                !.raws = Append(@, [types |-> ty, value |-> v])]
    /\ UNCHANGED discovery

\* pkt.serialize()
CodecSerialize ==
    /\ codec.phase = "build"
    /\ codec' = [codec EXCEPT !.phase = "wire", !.buf = serialize(codec.msg)]
    /\ UNCHANGED discovery

\* parsePackage(buf)
CodecParse ==
    /\ codec.phase = "wire"
    /\ codec' = [codec EXCEPT !.phase = "parsed", !.res = parsePackage(codec.buf)]
    /\ UNCHANGED discovery

\* pkt.getSourceAddr(), pkt.getMappedAddr() or pkt.getChangedAddr() on a parsed message
CodecFind ==
    /\ codec.phase = "parsed"
    /\ codec.res.err = NoErr
    /\ \E ty \in AttrTypes :
         codec' = [codec EXCEPT
                     !.phase = "found",
                     !.want = ty,
                     !.addr = CASE ty = attributeSourceAddress -> getSourceAddr(codec.res.pkt)
                                [] ty = attributeMappedAddress -> getMappedAddr(codec.res.pkt)
                                [] ty = attributeChangedAddress -> getChangedAddr(codec.res.pkt)]
    /\ UNCHANGED discovery

CodecNext ==
    \/ CodecAdd
    \/ CodecSerialize
    \/ CodecParse
    \/ CodecFind

CodecSpec == CodecInit /\ [][CodecNext]_vars

----------------------------------------------------------------------------
(* Properties *)

\* a probe that returned a terminal classification or an error
Terminal(h) == h.st = "done" /\ (h.nat # NATTypeUnknown \/ h.err # NoErr)
\* a probe that returned "to be continued"
Continued(h) == h.st = "done" /\ h.nat = NATTypeUnknown /\ h.err = NoErr

\* two addresses are the same host and port, a 4-byte address being the same
\* as its 16-byte IPv4-mapped form
To16(ip) == IF Len(ip) = 4 THEN Zeros(10) \o <<255, 255>> \o ip ELSE ip
SameAddr(a, b) == a # NilAddr /\ b # NilAddr /\ a.Port = b.Port /\ To16(a.IP) = To16(b.IP)

RECURSIVE WireFind(_, _, _)
\* the address attribute of the given type read off the attribute stream of a
\* well-formed message by the layout of RFC 3489 (11.2), none if it has none
WireFind(body, at, types) ==
    IF at + 4 > Len(body) THEN NilAddr
    ELSE LET ty == body[at + 1] * 256 + body[at + 2]
             ln == body[at + 3] * 256 + body[at + 4]
         IN  IF ty = types
             THEN [Port |-> body[at + 7] * 256 + body[at + 8],
                   IP |-> SubSeq(body, at + 9, at + 4 + ln)]
             ELSE WireFind(body, at + 4 + 4 * ((ln + 3) \div 4), types)

WireAddr(data, types) == WireFind(SubSeq(data, 21, Len(data)), 0, types)

\* what every state shows of the order of the probes
C1_StateOrder ==
    /\ \A t \in 1..4 : hist[t].st # "notrun" =>
          (test >= t /\ \A u \in 1..(t - 1) : Continued(hist[u]))
    /\ \A t \in 1..4 : hist[t].st = "running" => test = t
    /\ \A t \in 1..4 : Terminal(hist[t]) =>
          /\ pc = "done"
          /\ test = t
          /\ nattyp = hist[t].nat
          /\ err = hist[t].err
          /\ \A u \in (t + 1)..4 : hist[u].st = "notrun"
    /\ hist[4].st = "done" => Terminal(hist[4])
    /\ pc \in {"send", "setdl", "read", "ret"} => hist[test].st = "running"
    /\ lastEvt \in {"send", "write_error", "short_write"} => hist[test].st = "running"

\* what every step keeps of it: no step after the return, probes entered one
\* after the other, sends only by the running probe, a finished probe stays so
C1_Steps ==
    /\ pc # "done"
    /\ test' \in {test, test + 1}
    /\ sent' # sent => (sent' = 0 \/ (sent' = sent + 1 /\ test' = test /\ pc = "send"))
    /\ \A t \in 1..4 :
          /\ hist[t].st = "done" => hist'[t] = hist[t]
          /\ hist[t].st = "running" => hist'[t].st \in {"running", "done"}

\* C1: the probes run in the order Test1, Test2, Test3, Test4, none skipped or
\* repeated; the first probe that returns a terminal classification or an error
\* ends the run, its result is what Discovery returns, and nothing is sent for a
\* later probe.
C1_ProbeOrder == []C1_StateOrder /\ [][C1_Steps]_vars

C1_Witness ==
    /\ pc = "done"
    /\ test = 3
    /\ nattyp = NATTypeSymmetric
    /\ hist[4].st = "notrun"

\* C2: when Test1's engine ends with no accepted reply, Discovery returns
\* (UdpBlocked, nil) and Test2 is never started; when it accepts a reply, the
\* MappedAddress and ChangedAddress carried by that reply are stored in the
\* session and the run goes on to Test2.
C2_Test1 ==
    /\ (hist[1].st = "done" /\ hist[1].engErr = NoErr /\ ~hist[1].replied) =>
          /\ pc = "done"
          /\ nattyp = NATTypeUdpBlocked
          /\ err = NoErr
          /\ hist[2].st = "notrun"
    /\ (hist[1].st = "done" /\ hist[1].replied) =>
          /\ Continued(hist[1])
          /\ test >= 2
          /\ (test = 2 /\ pc = "build") =>
                /\ accepted # NoDatagram
                /\ nMappedAddr = WireAddr(accepted.data, attributeMappedAddress)
                /\ nChangedAddr = WireAddr(accepted.data, attributeChangedAddress)
                /\ nMappedAddr # NilAddr
                /\ nChangedAddr # NilAddr

C2_Witness ==
    /\ test = 2
    /\ pc = "build"
    /\ hist[1].st = "done"
    /\ hist[1].replied
    /\ nMappedAddr = AddrN
    /\ nChangedAddr = AddrC

\* what Test2 returned follows the table of RFC 3489: (reply accepted, Test1's
\* mapped address is the local address) gives (yes, yes) OpenInternet, (yes, no)
\* FullCone, (no, yes) SymmetricUDPFirewall, (no, no) on to Test3
Test2ByTable ==
    LET isLocal == SameAddr(nMappedAddr, nLocalAddr)
    IN  /\ hist[2].err = NoErr
        /\ hist[2].nat =
             IF hist[2].replied
             THEN (IF isLocal THEN NATTypeOpenInternet ELSE NATTypeFullCone)
             ELSE (IF isLocal THEN NATTypeSymmetricUDPFirewall ELSE NATTypeUnknown)
        /\ IF ~hist[2].replied /\ ~isLocal
           THEN test >= 3
           ELSE pc = "done" /\ test = 2 /\ nattyp = hist[2].nat /\ err = NoErr

\* C3: what Test2 returns is decided by (reply accepted, Test1's mapped address is
\* the local address) alone, by the table above; no other outcome is possible
\* without a transport error.
C3_Test2Decided ==
    (hist[2].st = "done" /\ failure # "transport") => Test2ByTable

\* the part of C3 that holds: the table decides whenever the engine returned no
\* error of any kind
C3_WithoutEngineError ==
    (hist[2].st = "done" /\ hist[2].engErr = NoErr) => Test2ByTable

\* C4: when Test3's engine ends with no accepted reply, Discovery returns Error
\* with a non-nil error and Test4 is never started; when the accepted reply's
\* MappedAddress differs from the one Test1 recorded, Discovery returns Symmetric;
\* when it is the same, the run goes on to Test4.
C4_Test3 ==
    /\ (hist[3].st = "done" /\ hist[3].engErr = NoErr /\ ~hist[3].replied) =>
          /\ pc = "done"
          /\ nattyp = NATTypeError
          /\ err # NoErr
          /\ hist[4].st = "notrun"
    /\ (hist[3].st = "done" /\ hist[3].replied) =>
          /\ hist[3].nat \in {NATTypeSymmetric, NATTypeUnknown}
          /\ hist[3].err = NoErr
          /\ hist[3].nat = NATTypeUnknown => test = 4
          /\ ((test = 3 /\ pc = "done") \/ (test = 4 /\ pc = "build")) =>
                IF SameAddr(WireAddr(accepted.data, attributeMappedAddress), nMappedAddr)
                THEN test = 4 /\ hist[3].nat = NATTypeUnknown
                ELSE pc = "done" /\ nattyp = NATTypeSymmetric /\ err = NoErr

C4_Witness ==
    /\ test = 4
    /\ pc = "build"
    /\ hist[3].st = "done"
    /\ hist[3].replied
    /\ nMappedAddr = AddrN
    /\ WireAddr(accepted.data, attributeMappedAddress) = AddrN

\* C5: Test4 always ends the run: (PortRestricted, nil) when no reply was accepted,
\* (Restricted, nil) when one was; and these two results are returned only after
\* Test1, Test2 and Test3 each completed without a terminal result.
C5_Test4 ==
    /\ hist[4].st = "done" =>
          /\ pc = "done"
          /\ nattyp = hist[4].nat
          /\ err = hist[4].err
          /\ hist[4].engErr = NoErr =>
                /\ err = NoErr
                /\ nattyp = IF hist[4].replied THEN NATTypeRestricted
                                               ELSE NATTypePortRestricted
    /\ (pc = "done" /\ nattyp \in {NATTypePortRestricted, NATTypeRestricted}) =>
          /\ \A t \in 1..3 : Continued(hist[t])
          /\ hist[4].st = "done"
          /\ err = NoErr

C5_Witness ==
    /\ pc = "done"
    /\ hist[4].st = "done"
    /\ hist[4].replied
    /\ nattyp = NATTypeRestricted

\* at most 9 sends, and the read deadline of attempt k is min(100 * 2^(k-1), 1600)
BackoffSchedule ==
    /\ sent <= 9
    /\ Len(dls) <= sent
    /\ \A k \in 1..Len(dls) : dls[k] = Min(100 * 2 ^ (k - 1), 1600)
    /\ pc = "read" => (Len(dls) = sent /\ sent = i + 1 /\ deadline = dls[sent])

\* C6: a probe sends at most 9 times; the read deadline of attempt k is
\* min(100 * 2^(k-1), 1600) ms; when no reply is accepted and no transport error
\* occurs, exactly 9 sends are made and the engine returns (nil, nil).
C6_Backoff ==
    /\ BackoffSchedule
    /\ (pc = "ret" /\ reply = NilPkt /\ failure # "transport") =>
          /\ sent = 9
          /\ engErr = NoErr

\* the part of C6 that holds: the schedule, and 9 sends with deadlines 100, 200,
\* 400, 800, 1600, ... behind every (nil, nil) the engine returns
C6_WithoutEngineError ==
    /\ BackoffSchedule
    /\ (pc = "ret" /\ reply = NilPkt /\ engErr = NoErr) =>
          /\ sent = 9
          /\ dls = <<100, 200, 400, 800, 1600, 1600, 1600, 1600, 1600>>

\* C7: a datagram that fails to decode is discarded: the engine keeps reading in
\* the same deadline window, the probe does not fail and the run's result is what
\* it would have been without that datagram.
C7_UndecodableDiscarded ==
    lastEvt = "rx_undecodable" =>
        /\ pc = "read"
        /\ engErr = NoErr
        /\ failure = "none"

\* the message the engine returned
C8_Returned ==
    /\ reply # NilPkt =>
          /\ pc \in {"ret", "build", "done"}
          /\ engErr = NoErr
          /\ accepted # NoDatagram
          /\ Len(accepted.data) >= 20
          /\ SubSeq(accepted.data, 5, 20) = rqst.transID
          /\ reply.transID = rqst.transID
          /\ reply.orgHost = accepted.peer
          /\ ~fchkPanics(test, reply)
          /\ pc = "ret" => fchk(test, Cli, reply, dst)
    /\ lastEvt \in {"rx_mismatch", "rx_rejected"} => (pc = "read" /\ reply = NilPkt)

\* a step that drops a datagram
C8_Dropped ==
    lastEvt' \in {"rx_mismatch", "rx_rejected"} =>
        /\ pc = "read"
        /\ pc' = "read"
        /\ reads' = reads + 1
        /\ UNCHANGED <<sent, i, timeout, deadline, dls, rqst, dst, reply, engErr, test>>

\* no send of the probe follows the return of a message
C8_NoSendAfterReturn ==
    reply # NilPkt => (sent' = sent \/ reply' = NilPkt)

\* C8: the engine returns a message only if it decoded, carries the request's 16
\* byte transaction id and passed the probe's fchk; a decoded datagram with another
\* transaction id or rejected by fchk is dropped without ending the attempt, without
\* a send and without a new deadline; after a message is returned the probe sends
\* nothing more.
C8_Engine == []C8_Returned /\ [][C8_Dropped /\ C8_NoSendAfterReturn]_vars

C8_Witness ==
    /\ pc = "ret"
    /\ reply # NilPkt
    /\ reads = 2
    /\ lastEvt = "rx_accepted"
    /\ test = 2

\* C9: a write failure, a short write or a read failure that is not a timeout ends
\* the run at once: nothing more is sent or read, Discovery returns Error with a
\* non-nil error, and the failure never becomes "no reply" or a classification.
C9_TransportAborts ==
    failure = "transport" =>
        /\ pc \in {"ret", "done"}
        /\ lastEvt \in {"write_error", "short_write", "read_error", "deadline_error", "return"}
        /\ reply = NilPkt
        /\ engErr # NoErr
        /\ \A u \in (test + 1)..4 : hist[u].st = "notrun"
        /\ pc = "ret" => lastEvt # "return"
        /\ pc = "done" =>
              /\ lastEvt = "return"
              /\ nattyp = NATTypeError
              /\ err = engErr
              /\ hist[test].st = "done"
              /\ hist[test].nat = NATTypeError
              /\ hist[test].err = engErr

C9_Witness ==
    /\ pc = "done"
    /\ failure = "transport"
    /\ test = 3
    /\ engErr = "error in sending rqstPkgData"
    /\ nattyp = NATTypeError

\* C10: Discovery's error is non-nil exactly when the NATType it returns is Error,
\* and every failure path (resolution, connect, message construction, bind,
\* transport error, Test3 without an answer) returns (Error, err).
C10_ErrorPairing ==
    /\ pc = "done" => (err # NoErr <=> nattyp = NATTypeError)
    /\ failure \in {"resolve", "connect", "construct", "localaddr", "bind", "transport",
                    "noanswer"} =>
          /\ pc \in {"ret", "done"}
          /\ pc = "done" => (nattyp = NATTypeError /\ err # NoErr)

\* C11: every socket Discovery acquired is closed when Discovery returns, on every
\* exit path: classification, probe error, and the early error returns (message
\* construction, missing local address, bind failure).
C11_TransportsClosed ==
    pc = "done" => (dialConn # "open" /\ listenConn # "open")

----------------------------------------------------------------------------
(* Properties of the codec, under CodecSpec *)

\* n rounded up to a multiple of 4
Up4(n) == n + ((4 - (n % 4)) % 4)

RECURSIVE SumLen(_)
\* the sum over the attributes of 4 + the padded length
SumLen(attrs) ==
    IF attrs = <<>> THEN 0 ELSE 4 + Up4(Head(attrs).length) + SumLen(Tail(attrs))

\* the message the codec holds after its last operation
CodecParsed == codec.phase \in {"parsed", "found"} /\ codec.res.err = NoErr

\* C12: the length field of a message equals the sum over its attributes of
\* 4 + align(length), as a 16-bit value, for a message built with newPacket and
\* addAttribute and for a message parsePackage produced.
C12_LengthField ==
    /\ codec.phase = "build" =>
         codec.msg.length = Uint16(SumLen(codec.msg.attributes))
    /\ CodecParsed =>
         codec.res.pkt.length = Uint16(SumLen(codec.res.pkt.attributes))

\* v is raw followed by fewer than 4 zero bytes up to a multiple of 4
PaddedFrom(v, raw) ==
    /\ Len(v) = Up4(Len(raw))
    /\ \A k \in 1..Len(v) : v[k] = IF k <= Len(raw) THEN raw[k] ELSE 0

\* C13: parsePackage(serialize(m)) succeeds and yields m's type, transaction id and
\* attributes: as many, in the same order, with the same types and zero-padded
\* values, each length being the padded length.
C13_RoundTrip ==
    (codec.phase \in {"parsed", "found"} /\ codec.msg # NilPkt) =>
        /\ codec.res.err = NoErr
        /\ codec.res.pkt.types = codec.msg.types
        /\ codec.res.pkt.transID = codec.msg.transID
        /\ Len(codec.res.pkt.attributes) = Len(codec.raws)
        /\ \A k \in 1..Len(codec.raws) :
             LET a == codec.res.pkt.attributes[k]
             IN  /\ a.types = codec.raws[k].types
                 /\ PaddedFrom(a.value, codec.raws[k].value)
                 /\ a.length = Len(a.value)

RECURSIVE WalkOK(_, _)
\* the attribute stream b walked from offset at without modular arithmetic: every
\* attribute header and value lies inside b
WalkOK(b, at) ==
    IF at + 4 >= Len(b) THEN TRUE
    ELSE LET length == b[at + 3] * 256 + b[at + 4]
         IN  at + 4 + length <= Len(b) /\ WalkOK(b, at + 4 + Up4(length))

FormatErrors ==
    {"received data length too short", "received data length too long",
     "received data format mismatch"}

\* C14: parsePackage returns a message or an error for every byte string and never
\* panics; fewer than 20 bytes are too short, more than 65535 too long, and a
\* message is returned only if every attribute it decoded lies inside the buffer.
C14_ParseTotal ==
    codec.phase \in {"parsed", "found"} =>
        /\ codec.res.err \in FormatErrors \cup {NoErr}
        /\ Len(codec.buf) < 20 <=> codec.res.err = "received data length too short"
        /\ Len(codec.buf) > 65535 <=> codec.res.err = "received data length too long"
        /\ codec.res.err = NoErr =>
             /\ WalkOK(Slice(codec.buf, 20, Len(codec.buf)), 0)
             /\ \A k \in 1..Len(codec.res.pkt.attributes) :
                  codec.res.pkt.attributes[k].length % 4 = 0

\* a parse that met a length that wraps 16-bit arithmetic, and the longest input
C14_Witness ==
    /\ codec.phase = "parsed"
    /\ \/ /\ Len(codec.buf) = 32
          /\ Slice(codec.buf, 20, 32) = <<0, 1, 0, 4, 1, 2, 3, 4>> \o <<0, 1, 255, 252>>
             \/ Slice(codec.buf, 20, 28) = <<0, 1, 255, 255, 0, 1, 0, 0>>
          /\ codec.res.err = "received data format mismatch"
       \/ /\ Len(codec.buf) = 65535
          /\ codec.res.err = NoErr

RECURSIVE Decoded(_, _)
\* the decoding the specification describes: attributes are decoded while at
\* least 4 bytes remain, each takes 4 + the padded length, and one that ends past
\* the buffer is a format error; the result is the number decoded, or -1
Decoded(b, at) ==
    IF Len(b) - at < 4 THEN 0
    ELSE LET length == b[at + 3] * 256 + b[at + 4]
             rest   == IF at + 4 + Up4(length) > Len(b) THEN -1
                       ELSE Decoded(b, at + 4 + Up4(length))
         IN  IF rest = -1 THEN -1 ELSE 1 + rest

\* C15: parsePackage decodes attributes as long as at least 4 bytes remain, each
\* taking 4 + align(length) bytes, and fails with the format error for an attribute
\* whose 4 + align(length) bytes end past the buffer.
C15_AttributeStream ==
    (codec.phase \in {"parsed", "found"} /\ Len(codec.buf) \in 20..65535) =>
        LET n == Decoded(Slice(codec.buf, 20, Len(codec.buf)), 0)
        IN  IF n = -1
            THEN codec.res.err = "received data format mismatch"
            ELSE codec.res.err = NoErr /\ Len(codec.res.pkt.attributes) = n

\* C16: the accessor returns the address of the first attribute of the type asked
\* for, and none, without a panic, when there is no such attribute or its value is
\* shorter than the 4 bytes of family and port.
C16_Accessor ==
    codec.phase = "found" =>
        LET attrs == codec.res.pkt.attributes
            idx   == {k \in 1..Len(attrs) : attrs[k].types = codec.want}
            first == CHOOSE k \in idx : \A j \in idx : k <= j
        IN  /\ codec.addr # Panic
            /\ idx = {} => codec.addr = NilAddr
            /\ (idx # {} /\ Len(attrs[first].value) < 4) => codec.addr = NilAddr
            /\ (idx # {} /\ Len(attrs[first].value) >= 4) =>
                 codec.addr = [Port |-> attrs[first].value[3] * 256 + attrs[first].value[4],
                               IP |-> SubSeq(attrs[first].value, 5, Len(attrs[first].value))]

----------------------------------------------------------------------------
(* Properties of the probes' requests and replies, under Spec *)

\* a probe has built its request and has not yet returned to doDetect
ProbeRunning == pc \in {"send", "setdl", "read", "ret"}

\* the bytes of a CHANGE-REQUEST attribute whose last byte is b
ChangeRequestBytes(b) == <<0, 3, 0, 4, 0, 0, 0, b>>

\* C17: every probe's request is a Binding Request; Test1, Test2 and Test4 go to the
\* primary server and Test3 to the changed address Test1 recorded; Test1 and Test3
\* carry no attribute (length 0), Test2 a CHANGE-REQUEST ending in 0x06 and Test4
\* one ending in 0x02.
C17_Requests ==
    ProbeRunning =>
        /\ Len(rqstPkgData) >= 20
        /\ SubSeq(rqstPkgData, 1, 2) = <<0, 1>>
        /\ lastSent \in {<<>>, rqstPkgData}
        /\ sent >= 1 => lastSent = rqstPkgData
        /\ test \in {1, 2, 4} => dst = serverUDPAddr /\ dst = nSrvAddr
        \* AddrC is the changed address of every reply Test1 can accept
        /\ test = 3 => dst = nChangedAddr /\ SameAddr(dst, AddrC)
        /\ test \in {1, 3} => Len(rqstPkgData) = 20 /\ SubSeq(rqstPkgData, 3, 4) = <<0, 0>>
        /\ test = 2 => /\ SubSeq(rqstPkgData, 3, 4) = <<0, 8>>
                       /\ SubSeq(rqstPkgData, 21, Len(rqstPkgData)) = ChangeRequestBytes(6)
        /\ test = 4 => /\ SubSeq(rqstPkgData, 3, 4) = <<0, 8>>
                       /\ SubSeq(rqstPkgData, 21, Len(rqstPkgData)) = ChangeRequestBytes(2)

\* Test4's request has been sent
C17_Witness ==
    /\ test = 4
    /\ pc = "read"
    /\ lastSent[28] = 2
    /\ dst = AddrS

\* the probe t, holding the reply d, finds its acceptance predicate true
Acceptable(t, d) ==
    CASE t = 1 -> /\ WireAddr(d.data, attributeMappedAddress) # NilAddr
                  /\ WireAddr(d.data, attributeChangedAddress) # NilAddr
      [] t = 2 -> SameAddr(d.peer, nChangedAddr)
      [] t = 3 -> WireAddr(d.data, attributeMappedAddress) # NilAddr
      [] t = 4 -> d.peer.Port # dst.Port

\* C18: the reply a probe acts on satisfies the probe's acceptance predicate; a
\* reply with the request's transaction id that does not, such as an answer to
\* Test2 or Test4 from the address the request went to, is not returned, and the
\* step that rejects it leaves the probe reading without a reply.
C18_Accepted ==
    /\ []((pc = "ret" /\ reply # NilPkt) =>
            (accepted # NoDatagram /\ Acceptable(test, accepted)))
    /\ []((pc = "read" /\ test \in {2, 4}) =>
            \A d \in Datagrams :
                d.peer = dst => OnDatagram(test, Cli, rqst, dst, d) # "return")
    /\ [][lastEvt' = "rx_rejected" =>
            (pc' = "read" /\ reply' = NilPkt /\ accepted' = NoDatagram)]_vars

\* Test4 rejected an answer, which came from the port the request went to
C18_Witness ==
    /\ test = 4
    /\ lastEvt = "rx_rejected"
    /\ pc = "read"

\* the transaction id inside a message on the wire
WireID(data) == SubSeq(data, 5, 20)

\* C19: the transaction id of every probe's request is A2 40 02 27 followed by 12
\* bytes; every retransmission of a probe sends the bytes of its first
\* transmission; and when the id of the running probe differs from the ids of
\* the requests built before it, a reply carrying one of those is not accepted.
C19_TransactionIDs ==
    /\ [](ProbeRunning =>
            /\ Len(rqstPkgData) >= 20
            /\ SubSeq(WireID(rqstPkgData), 1, 4) = <<162, 64, 2, 39>>
            /\ Len(WireID(rqstPkgData)) = 16)
    /\ [][(sent' = sent + 1 /\ sent >= 1) => lastSent' = lastSent]_vars
    /\ []((pc = "ret" /\ reply # NilPkt /\ WireID(rqstPkgData) \notin usedIDs) =>
            WireID(accepted.data) \notin usedIDs)
    /\ [](lastEvt = "rx_accepted" => WireID(accepted.data) = WireID(lastSent))

\* after a retransmission, a probe whose id is new discarded a datagram with
\* another id while the ids of earlier requests are on record
C19_Witness ==
    /\ lastEvt = "rx_mismatch"
    /\ sent >= 2
    /\ usedIDs # {}
    /\ WireID(lastSent) \notin usedIDs

\* C20: nMappedAddr and nChangedAddr change only when Test1 returns with an accepted
\* reply; Test2, Test3 and Test4 leave them as they are; nLocalAddr and nSrvAddr
\* do not change once Test1 has started.
C20_SessionFrame ==
    [][/\ (nMappedAddr' # nMappedAddr \/ nChangedAddr' # nChangedAddr) =>
            (test = 1 /\ pc = "ret" /\ reply # NilPkt /\ engErr = NoErr)
       /\ test >= 1 => UNCHANGED <<nLocalAddr, nSrvAddr>>]_vars

\* Test3 returned after a reply whose MAPPED-ADDRESS differs from Test1's
C20_Witness ==
    /\ hist[3].st = "done"
    /\ hist[3].replied
    /\ hist[3].nat = NATTypeSymmetric
    /\ nMappedAddr = AddrN
    /\ nChangedAddr = AddrC

----------------------------------------------------------------------------
(* Properties of the whole run, under Spec *)

\* the classifications a run may return
Classifications ==
    {NATTypeOpenInternet, NATTypeFullCone, NATTypeRestricted, NATTypePortRestricted,
     NATTypeSymmetricUDPFirewall, NATTypeSymmetric, NATTypeUdpBlocked, NATTypeError}

\* C21: Discovery never returns NATTypeUnknown: a run that returned gives one of the
\* eight other values; a probe returns NATTypeUnknown only as one of Test1..Test3,
\* without an error, and doDetect then goes on to the next probe; Test4 never does.
C21_NeverUnknown ==
    /\ pc = "done" => (nattyp \in Classifications /\ nattyp # NATTypeUnknown)
    /\ \A t \in 1..4 :
         (hist[t].st = "done" /\ hist[t].nat = NATTypeUnknown) =>
             /\ t \in 1..3
             /\ hist[t].err = NoErr
             /\ test > t
    /\ hist[4].st = "done" => hist[4].nat \in Classifications

\* a run that went through all four probes has returned Test4's classification
C21_Witness ==
    /\ pc = "done"
    /\ \A t \in 1..3 : Continued(hist[t])
    /\ hist[4].st = "done"
    /\ ~hist[4].replied
    /\ nattyp = NATTypePortRestricted

\* C22: when every read deadline expires, every run of Discovery returns, whatever
\* datagrams arrive; a probe sends at most 9 times and a run has at most 4 probes,
\* hence at most 36 sends.
C22_Returns ==
    /\ <>(pc = "done")
    /\ [](sent <= maxRetransmitNum /\ test \in 0..4)

====
